---- MODULE Spec2Model ----
(***************************************************************************)
(* Model of scripts/fetch_mlb_injuries_transactions.py: the retrying HTTP  *)
(* client (fetch_json), the text classifier (classify_injury), the record  *)
(* flattener (flatten_transaction), the daily aggregator                   *)
(* (build_daily_series over daterange) and the orchestrator (main).        *)
(*                                                                         *)
(* Encodings.  A Python str holding a date is a sequence of character      *)
(* codes (48..57 digits, 45 "-", 58 ":", 84 "T"); str comparison is the    *)
(* lexicographic order on those sequences.  A description is a sequence of *)
(* words/phrases (tokens) that are separated by single blanks in the text. *)
(* None is NoneStr / NoneInt / NoneDesc according to the type of the slot. *)
(***************************************************************************)
EXTENDS Integers, Sequences, FiniteSets, TLC

VARIABLES
    pc,           \* position of main
    start_year,   \* args.start_year
    end_year,     \* args.end_year
    year,         \* loop variable of main
    all_rows,     \* accumulator of flattened rows
    injury_rows,  \* filtered rows
    daily_rows,   \* result of build_daily_series in main
    files,        \* the three output files: <<>> while not written
    exit,         \* how main ended
    calls,        \* URLs handed to fetch_json so far (one per call)
    url,          \* fetch_json: argument
    retries,      \* fetch_json: argument
    sleep_seconds, \* fetch_json: argument, in half seconds
    attempt,      \* fetch_json: loop variable
    last_error,   \* fetch_json: last_error
    sleeps,       \* fetch_json: pauses taken in the current call (half seconds)
    failures,     \* exceptions raised by urlopen/json.load in the current call
    payload,      \* value returned by fetch_json
    fetched,      \* history: the years whose call of fetch_json returned
    returned_txs, \* history: the transactions the API returned, in order
    c_tx,         \* classifier run: the transaction handed to flatten_transaction
    c_row,        \* classifier run: the row it returned
    d_start,      \* aggregator run: start_date
    d_end,        \* aggregator run: end_date
    d_in,         \* aggregator run: injury_rows argument
    d_out         \* aggregator run: outcome of build_daily_series

vars == <<pc, start_year, end_year, year, all_rows, injury_rows, daily_rows,
          files, exit, calls, url, retries, sleep_seconds, attempt, last_error,
          sleeps, failures, payload, fetched, returned_txs, c_tx, c_row,
          d_start, d_end, d_in, d_out>>

mainVars == <<pc, start_year, end_year, year, all_rows, injury_rows,
              daily_rows, files, exit, calls, url, retries, sleep_seconds,
              attempt, last_error, sleeps, failures, payload, fetched,
              returned_txs>>
fetchArgs == <<retries, sleep_seconds>>
histVars == <<fetched, returned_txs>>
classVars == <<c_tx, c_row>>
dailyVars == <<d_start, d_end, d_in, d_out>>

----------------------------------------------------------------------------
(* Bounds of the exploration *)

MaxClauses == 3      \* clauses per description in the classifier runs
MaxTx == 2           \* transactions returned over a whole run of main
NumYears == 2        \* years the command line may name, from FirstYear on
MaxSpan == 3         \* end_date - start_date in the aggregator runs
MaxDailyRows == 2    \* injury rows handed to the aggregator runs
MaxRetries == 3      \* retries in the runs of fetch_json on its own

(* Program constants *)

FirstYear == 2015          \* default of --start-year
Retries == 3               \* fetch_json: retries
SleepHalfSeconds == 3      \* fetch_json: sleep_seconds = 1.5 s, in half seconds
SportId == 1               \* build_url: sport_id
MAXYEAR == 9999            \* datetime.date.max.year

----------------------------------------------------------------------------
(* Python None *)

NoneInt == 0 - 1
NoneStr == <<0>>
NoneDesc == <<"<None>">>

\* the exception object urlopen / json.load raises in attempt a: every
\* failure is an object of its own, whatever its class
Raised(a) == [exception |-> a]

NoException == [exception |-> 0]

\* truth value of an optional str / int, as `x or y` tests it
TruthyStr(s) == s /= NoneStr /\ s /= <<>>
TruthyInt(n) == n /= NoneInt /\ n /= 0

\* a or b on optional strings
OrStr(a, b) == IF TruthyStr(a) THEN a ELSE b

Min(a, b) == IF a <= b THEN a ELSE b

----------------------------------------------------------------------------
(* Text: tokens, str.lower(), re.IGNORECASE, substring containment *)

LF == "{LF}"

\* str.lower() of a token
Lower(t) ==
    CASE t = "Placed" -> "placed"
      [] t = "Disabled List" -> "disabled list"
      [] OTHER -> t

\* the simple-case-folded form re.IGNORECASE compares with: it also folds
\* U+0131 (dotless i) to i and U+017F (long s) to s, which lower() leaves
Fold(t) ==
    CASE t = "{U+0131}njured list" -> "injured list"
      [] t = "rehab a{U+017F}{U+017F}ignment" -> "rehab assignment"
      [] OTHER -> Lower(t)

\* the phrases that occur, at word boundaries, inside a lower-case token
SubPhrases(t) ==
    CASE t = "10-day injured list" -> {"10-day injured list", "injured list"}
      [] t = "60-day injured list" -> {"60-day injured list", "injured list"}
      [] t = "covid-19 injured list" -> {"covid-19 injured list", "injured list"}
      [] OTHER -> {t}

\* str.strip(): leading and trailing whitespace goes; a line feed is whitespace
RECURSIVE LStrip(_)
LStrip(text) ==
    IF text /= <<>> /\ Head(text) = LF THEN LStrip(Tail(text)) ELSE text

RECURSIVE RStrip(_)
RStrip(text) ==
    IF text /= <<>> /\ text[Len(text)] = LF
    THEN RStrip(SubSeq(text, 1, Len(text) - 1)) ELSE text

Strip(text) == RStrip(LStrip(text))

\* k in lower
Contains(text, k) == \E i \in 1..Len(text) : k \in SubPhrases(Lower(text[i]))

\* pattern.search(text) for a pattern  \bA1\b.*?\bA2\b.*? ... \bAn\b  under
\* re.IGNORECASE: anchors is the sequence A1..An, each a set of alternatives;
\* "." does not match a line feed, so none lies between the first and the
\* last anchor.  from is the first position the next anchor may take.
RECURSIVE MatchFrom(_, _, _)
MatchFrom(text, anchors, from) ==
    IF anchors = <<>> THEN TRUE
    ELSE \E i \in from..Len(text) :
            /\ SubPhrases(Fold(text[i])) \cap Head(anchors) /= {}
            /\ \A j \in from..(i - 1) : text[j] /= LF
            /\ MatchFrom(text, Tail(anchors), i + 1)

Search(anchors, text) ==
    \E i \in 1..Len(text) :
        /\ SubPhrases(Fold(text[i])) \cap Head(anchors) /= {}
        /\ MatchFrom(text, Tail(anchors), i + 1)

LIST == {"injured list", "disabled list"}

INJURY_KEYWORDS ==
    <<"injured list", "disabled list", "concussion injured list",
      "covid-19 injured list", "rehab assignment">>

IL_PLACEMENT_RE == <<{"placed"}, {"on the"}, LIST>>
IL_TRANSFER_RE == <<{"transferred"}, LIST, {"to the"}, LIST>>
IL_ACTIVATION_RE == <<{"activated", "reinstated"}, {"from the"}, LIST>>
REHAB_ASSIGNMENT_RE == <<{"rehab assignment"}>>

\* IL_DAY_CLASS_RE.search(text): group(1) of the leftmost match, "" if none
DayClassOf(t) ==
    CASE "10-day injured list" \in SubPhrases(Fold(t)) -> "10"
      [] "60-day injured list" \in SubPhrases(Fold(t)) -> "60"
      [] OTHER -> ""

RECURSIVE IL_DAY_CLASS_RE(_)
IL_DAY_CLASS_RE(text) ==
    IF text = <<>> THEN ""
    ELSE IF DayClassOf(Head(text)) /= "" THEN DayClassOf(Head(text))
    ELSE IL_DAY_CLASS_RE(Tail(text))

BoolInt(b) == IF b THEN 1 ELSE 0

----------------------------------------------------------------------------
(* classify_injury *)

\* line 144 with the "not is_il_transfer" dropped
CountAsNew_NoTransferTest(is_il_placement, is_il_transfer) == is_il_placement

CountAsNew(is_il_placement, is_il_transfer) ==
    is_il_placement /\ ~is_il_transfer

\* lines 146-149 with the first two branches in the other order
EventType_PlacementFirst(tr, pl, ac, re, inj) ==
    IF pl THEN "il_placement"
    ELSE IF tr THEN "il_transfer"
    ELSE IF ac THEN "il_activation"
    ELSE IF re THEN "rehab_assignment"
    ELSE IF inj THEN "injury_other"
    ELSE "non_injury"

EventType(tr, pl, ac, re, inj) ==
    IF tr THEN "il_transfer"
    ELSE IF pl THEN "il_placement"
    ELSE IF ac THEN "il_activation"
    ELSE IF re THEN "rehab_assignment"
    ELSE IF inj THEN "injury_other"
    ELSE "non_injury"

classify_injury(description) ==
    LET text == Strip(description)
        is_injury_related ==
            \E n \in 1..Len(INJURY_KEYWORDS) : Contains(text, INJURY_KEYWORDS[n])
        is_il_placement == Search(IL_PLACEMENT_RE, text)
        is_il_transfer == Search(IL_TRANSFER_RE, text)
        is_il_activation == Search(IL_ACTIVATION_RE, text)
        is_rehab_assignment == Search(REHAB_ASSIGNMENT_RE, text)
        is_covid_il == Contains(text, "covid-19 injured list")
        day == IL_DAY_CLASS_RE(text)
    IN  [ is_injury_related |-> BoolInt(is_injury_related),
          injury_event_type |->
              EventType(is_il_transfer, is_il_placement, is_il_activation,
                        is_rehab_assignment, is_injury_related),
          is_il_placement |-> BoolInt(is_il_placement),
          is_il_activation |-> BoolInt(is_il_activation),
          is_il_transfer |-> BoolInt(is_il_transfer),
          is_rehab_assignment |-> BoolInt(is_rehab_assignment),
          is_covid_il |-> BoolInt(is_covid_il),
          il_days_bucket |->
              IF day /= "" THEN <<day, "-day">>
              ELSE IF Contains(text, "covid-19 injured list") THEN <<"covid-19">>
              ELSE IF Contains(text, "concussion injured list")
                      \/ Contains(text, "concussion disabled list")
                   THEN <<"concussion">>
              ELSE <<>>,
          count_as_new_injury_registration |->
              BoolInt(CountAsNew(is_il_placement, is_il_transfer)) ]

----------------------------------------------------------------------------
(* str values that hold dates: character codes, comparison, int(...) *)

Digit(n) == 48 + n
DASH == 45

\* a < b on str
RECURSIVE StrLT(_, _)
StrLT(a, b) ==
    IF b = <<>> THEN FALSE
    ELSE IF a = <<>> THEN TRUE
    ELSE IF Head(a) /= Head(b) THEN Head(a) < Head(b)
    ELSE StrLT(Tail(a), Tail(b))

\* int(s) for a str of decimal digits
RECURSIVE ParseInt(_)
ParseInt(s) ==
    IF s = <<>> THEN 0
    ELSE ParseInt(SubSeq(s, 1, Len(s) - 1)) * 10 + (s[Len(s)] - 48)

----------------------------------------------------------------------------
(* datetime.date: a date is its proleptic Gregorian ordinal, as in the     *)
(* library; date(y, m, d), d.year, d.isoformat() and d + timedelta(days=1) *)
(* go through the ordinal                                                  *)

IsLeap(y) == y % 4 = 0 /\ (y % 100 /= 0 \/ y % 400 = 0)

DaysInMonth(y, m) ==
    IF m = 2 THEN (IF IsLeap(y) THEN 29 ELSE 28)
    ELSE IF m \in {4, 6, 9, 11} THEN 30 ELSE 31

DaysBeforeYear(y) ==
    (y - 1) * 365 + (y - 1) \div 4 - (y - 1) \div 100 + (y - 1) \div 400

DAYS_BEFORE_MONTH == <<0, 31, 59, 90, 120, 151, 181, 212, 243, 273, 304, 334>>

DaysBeforeMonth(y, m) ==
    DAYS_BEFORE_MONTH[m] + (IF m > 2 /\ IsLeap(y) THEN 1 ELSE 0)

\* date(y, m, d)
date(y, m, d) == DaysBeforeYear(y) + DaysBeforeMonth(y, m) + d

\* date.max
DateMax == date(MAXYEAR, 12, 31)

\* <<d.year, d.month, d.day>> of the date with ordinal o
YMD(o) ==
    LET n == o - 1
        n400 == n \div 146097
        r400 == n % 146097
        n100 == r400 \div 36524
        r100 == r400 % 36524
        n4 == r100 \div 1461
        r4 == r100 % 1461
        n1 == r4 \div 365
        r1 == r4 % 365
        y == n400 * 400 + n100 * 100 + n4 * 4 + n1 + 1
        guess == (r1 + 50) \div 32
        m == IF DaysBeforeMonth(y, guess) > r1 THEN guess - 1 ELSE guess
    IN  IF n1 = 4 \/ n100 = 4 THEN <<y - 1, 12, 31>>
        ELSE <<y, m, r1 - DaysBeforeMonth(y, m) + 1>>

\* d.year
YearOf(o) == YMD(o)[1]

\* "%04d-%02d-%02d" % (y, m, d)
IsoFormat(y, m, d) ==
    << Digit(y \div 1000), Digit((y \div 100) % 10), Digit((y \div 10) % 10),
       Digit(y % 10), DASH, Digit(m \div 10), Digit(m % 10), DASH,
       Digit(d \div 10), Digit(d % 10) >>

\* d.isoformat()
isoformat(o) == LET t == YMD(o) IN IsoFormat(t[1], t[2], t[3])

\* daterange with "cur <= end" read as "cur < end": the last day is lost
daterange_ExclusiveEnd(start, end) ==
    [ days |-> [i \in 1..(IF start < end THEN end - start ELSE 0) |-> start + i - 1],
      raised |-> FALSE ]

\* daterange(start, end), run to exhaustion by the for loop of
\* build_daily_series: the days it yields, and whether the
\* "cur += timedelta(days=1)" after the last yield left the range of date
\* (OverflowError: date value out of range)
daterange(start, end) ==
    [ days |-> [i \in 1..(IF start <= end THEN end - start + 1 ELSE 0) |-> start + i - 1],
      raised |-> start <= end /\ end = DateMax ]

----------------------------------------------------------------------------
(* choose_event_date, flatten_transaction *)

choose_event_date(tx) ==
    OrStr(tx.date, OrStr(tx.effectiveDate, tx.resolutionDate))

\* tx.get("description") or ""
DescOrEmpty(d) == IF d = NoneDesc THEN <<>> ELSE d

\* The pass-through columns type_code, type_desc, person_*, from_team_*,
\* to_team_* are copies of the API fields and are left out of the row.
flatten_transaction(tx) ==
    LET description == DescOrEmpty(tx.description)
        event_date == choose_event_date(tx)
        yr == IF TruthyStr(event_date)
              THEN ParseInt(SubSeq(event_date, 1, Min(4, Len(event_date))))
              ELSE NoneInt
    IN  [ transaction_id |-> tx.id,
          api_date |-> tx.date,
          effective_date |-> tx.effectiveDate,
          resolution_date |-> tx.resolutionDate,
          event_date |-> event_date,
          year |-> yr,
          description |-> description ] @@ classify_injury(description)


----------------------------------------------------------------------------
(* build_daily_series *)

ZeroCounter ==
    [ injury_related_transactions |-> 0, injury_registrations |-> 0,
      il_activations |-> 0, il_transfers |-> 0, rehab_assignments |-> 0 ]

\* by_day after the first n rows of the first loop
RECURSIVE ByDay(_, _)
ByDay(rows, n) ==
    IF n = 0 THEN <<>>
    ELSE LET prev == ByDay(rows, n - 1)
             row == rows[n]
             d == row.event_date
             c == IF d \in DOMAIN prev THEN prev[d] ELSE ZeroCounter
             c2 == [ injury_related_transactions |-> c.injury_related_transactions + 1,
                     injury_registrations |->
                         c.injury_registrations + row.count_as_new_injury_registration,
                     il_activations |-> c.il_activations + row.is_il_activation,
                     il_transfers |-> c.il_transfers + row.is_il_transfer,
                     rehab_assignments |-> c.rehab_assignments + row.is_rehab_assignment ]
         IN  IF ~TruthyStr(d) THEN prev
             ELSE [x \in (DOMAIN prev) \cup {d} |-> IF x = d THEN c2 ELSE prev[x]]

DailyRow(o, by_day) ==
    LET key == isoformat(o)
        c == IF key \in DOMAIN by_day THEN by_day[key] ELSE ZeroCounter
    IN  [ date |-> key,
          year |-> YearOf(o),
          injury_registrations |-> c.injury_registrations,
          injury_related_transactions |-> c.injury_related_transactions,
          il_activations |-> c.il_activations,
          il_transfers |-> c.il_transfers,
          rehab_assignments |-> c.rehab_assignments ]

\* returned is FALSE when the exception of daterange leaves the function
build_daily_series(rows, start_date, end_date) ==
    LET by_day == ByDay(rows, Len(rows))
        dr == daterange(start_date, end_date)
    IN  IF dr.raised
        THEN [ returned |-> FALSE, rows |-> <<>> ]
        ELSE [ returned |-> TRUE,
               rows |-> [i \in 1..Len(dr.days) |-> DailyRow(dr.days[i], by_day)] ]

----------------------------------------------------------------------------
(* Inputs: what the API may return *)

D_2015_12_31 == IsoFormat(2015, 12, 31)
D_2016_02_29 == IsoFormat(2016, 2, 29)
D_2014_12_30 == IsoFormat(2014, 12, 30)
\* "2016-02-29T00:00:00"
D_TIMESTAMP == IsoFormat(2016, 2, 29) \o <<84, 48, 48, 58, 48, 48, 58, 48, 48>>

PLACE_10 == <<"placed", "on the", "10-day injured list">>
PLACE_DL == <<"Placed", "on the", "Disabled List">>
PLACE_U == <<"placed", "on the", "{U+0131}njured list">>
TRANSFER == <<"transferred", "from the", "10-day injured list", "to the",
              "60-day injured list">>
TRANSFER_U == <<"transferred", "{U+0131}njured list", "to the", "{U+0131}njured list">>
ACTIVATE == <<"activated", "from the", "60-day injured list">>
REINSTATE_U == <<"reinstated", "from the", "{U+0131}njured list">>
REHAB == <<"rehab assignment">>
REHAB_U == <<"rehab a{U+017F}{U+017F}ignment">>
REINSTATE_REHAB_U == REINSTATE_U \o REHAB_U
COVID == <<"covid-19 injured list">>
BROKEN == <<"placed", LF, "on the", "injured list">>
SIGNED == <<"signed">>

Tx(id, d, e, r, desc) ==
    [id |-> id, date |-> d, effectiveDate |-> e, resolutionDate |-> r,
     description |-> desc]

\* what a yearly request may return
TxPool ==
    { Tx(2, D_2015_12_31, NoneStr, NoneStr, PLACE_10),
      Tx(2, D_2015_12_31, D_2014_12_30, NoneStr, PLACE_10 \o TRANSFER),
      Tx(1, D_2015_12_31, NoneStr, NoneStr, SIGNED),
      Tx(NoneInt, NoneStr, NoneStr, NoneStr, PLACE_10),
      Tx(3, <<>>, D_2014_12_30, D_2015_12_31, PLACE_DL),
      Tx(4, D_TIMESTAMP, NoneStr, NoneStr, PLACE_10) }

\* what the aggregator runs draw their rows from
DailyTxPool ==
    TxPool \cup
        { Tx(6, D_2015_12_31, NoneStr, D_2016_02_29, REINSTATE_U \o ACTIVATE \o REHAB),
          Tx(7, D_2016_02_29, NoneStr, NoneStr, PLACE_U) }

\* the rows flatten_transaction makes of the transactions above
FlatRowOf == [tx \in DailyTxPool |-> flatten_transaction(tx)]

\* for tx in txs: all_rows.append(flatten_transaction(tx))
FlattenAll(txs) == [i \in 1..Len(txs) |-> FlatRowOf[txs[i]]]

\* all sequences over S of length at most n
SeqsUpTo(S, n) == UNION { [1..k -> S] : k \in 0..n }

RECURSIVE Concat(_)
Concat(ss) == IF ss = <<>> THEN <<>> ELSE Head(ss) \o Concat(Tail(ss))

Clauses ==
    { PLACE_10, PLACE_DL, PLACE_U, TRANSFER, TRANSFER_U, ACTIVATE, REINSTATE_U,
      REHAB, REHAB_U, REINSTATE_REHAB_U, COVID, BROKEN, SIGNED }

Descriptions ==
    { Concat(cs) : cs \in SeqsUpTo(Clauses, MaxClauses) } \cup {NoneDesc}

DateTriples ==
    { <<D_2015_12_31, D_2014_12_30, NoneStr>>,
      <<NoneStr, D_2014_12_30, D_2016_02_29>>,
      <<<<>>, NoneStr, D_TIMESTAMP>>,
      <<NoneStr, NoneStr, NoneStr>>,
      <<<<>>, <<>>, <<>>>> }

NoTx == Tx(NoneInt, NoneStr, NoneStr, NoneStr, NoneDesc)
NoRow == [ transaction_id |-> NoneInt ]
NotRun == [ returned |-> FALSE, rows |-> <<>>, run |-> FALSE ]

StartDates ==
    { date(2015, 12, 30), date(2016, 2, 27), date(2015, 2, 27),
      date(2100, 2, 27), date(MAXYEAR, 12, 29) }

----------------------------------------------------------------------------
(* Idle values of the three groups of variables *)

MainIdle ==
    /\ pc = "idle" /\ start_year = 0 /\ end_year = 0 /\ year = 0
    /\ all_rows = <<>> /\ injury_rows = <<>> /\ daily_rows = <<>>
    /\ files = [flat |-> [written |-> FALSE, rows |-> <<>>],
                 injury |-> [written |-> FALSE, rows |-> <<>>],
                 daily |-> [written |-> FALSE, rows |-> <<>>]]
    /\ exit = [kind |-> "idle", url |-> <<>>, cause |-> NoException]
    /\ calls = <<>> /\ url = <<>> /\ attempt = 0 /\ last_error = NoException
    /\ retries = 0 /\ sleep_seconds = 0
    /\ sleeps = <<>> /\ failures = <<>>
    /\ payload = [has_transactions |-> FALSE, transactions |-> <<>>]
    /\ fetched = <<>> /\ returned_txs = <<>>

ClassIdle == c_tx = NoTx /\ c_row = NoRow

DailyIdle == d_start = 0 /\ d_end = 0 /\ d_in = <<>> /\ d_out = NotRun

----------------------------------------------------------------------------
(* Classifier runs: flatten_transaction on one transaction *)

InitClassify ==
    /\ MainIdle /\ DailyIdle
    /\ c_row = NoRow
    /\ \E desc \in Descriptions, t \in DateTriples :
           c_tx = Tx(1, t[1], t[2], t[3], desc)

Flatten ==
    /\ c_row = NoRow
    /\ c_row' = flatten_transaction(c_tx)
    /\ UNCHANGED <<c_tx, mainVars, dailyVars>>

NextClassify == Flatten

SpecClassify == InitClassify /\ [][NextClassify]_vars

----------------------------------------------------------------------------
(* Aggregator runs: build_daily_series on rows of flatten_transaction *)

InitDaily ==
    /\ MainIdle /\ ClassIdle
    /\ d_out = NotRun
    /\ \E s \in StartDates, k \in 0..MaxSpan, txs \in SeqsUpTo(DailyTxPool, MaxDailyRows) :
           /\ s + k <= DateMax
           /\ d_start = s
           /\ d_end = s + k
           /\ d_in = FlattenAll(txs)

BuildDaily ==
    /\ ~d_out.run
    /\ d_out' = build_daily_series(d_in, d_start, d_end) @@ [run |-> TRUE]
    /\ UNCHANGED <<d_start, d_end, d_in, mainVars, classVars>>

NextDaily == BuildDaily

SpecDaily == InitDaily /\ [][NextDaily]_vars

----------------------------------------------------------------------------
(* fetch_json and build_url *)

\* str(n) for n >= 0
RECURSIVE DecStr(_)
DecStr(n) == IF n < 10 THEN <<Digit(n)>> ELSE DecStr(n \div 10) \o <<Digit(n % 10)>>

\* f"{year}-01-01" and f"{year}-12-31"
JanFirst(y) == DecStr(y) \o <<DASH, 48, 49, DASH, 48, 49>>
DecLast(y) == DecStr(y) \o <<DASH, 49, 50, DASH, 51, 49>>

\* the query of the URL; the base address is fixed
build_url(start, end, sport_id) ==
    [startDate |-> start, endDate |-> end, sportId |-> sport_id]

\* line 104 keeping the first failure instead of the last
RecordError_KeepFirst(prev, exc) == IF prev = NoException THEN exc ELSE prev

\* line 104: last_error = exc
RecordError(prev, exc) == exc

\* line 105: attempt == retries
IsLastAttempt(a, n) == a = n

\* line 107: the pause after failed attempt a, in half seconds
Pause(base, a) == base * a

\* line 108
RuntimeError(u, cause) == [kind |-> "RuntimeError", url |-> u, cause |-> cause]

Running == [kind |-> "running", url |-> <<>>, cause |-> NoException]
SystemExit == [kind |-> "SystemExit", url |-> <<>>, cause |-> NoException]
OverflowError == [kind |-> "OverflowError", url |-> <<>>, cause |-> NoException]
Returned0 == [kind |-> "return 0", url |-> <<>>, cause |-> NoException]

\* a parsed body: with or without the "transactions" member
Body(has, txs) == [has_transactions |-> has, transactions |-> txs]
NoBody == Body(FALSE, <<>>)

\* payload.get("transactions", [])
Transactions(body) == IF body.has_transactions THEN body.transactions ELSE <<>>

----------------------------------------------------------------------------
(* main: sorting, filtering, writing *)

\* r.get("transaction_id") or 0
IdOrZero(n) == IF TruthyInt(n) THEN n ELSE 0

\* the sort key of line 289
SortKey(r) == <<OrStr(r.event_date, <<>>), IdOrZero(r.transaction_id)>>

\* the key of line 289 without the transaction id
KeyLE_DateOnly(a, b) == ~StrLT(b[1], a[1])

\* a <= b on the key tuples
KeyLE(a, b) == StrLT(a[1], b[1]) \/ (a[1] = b[1] /\ a[2] <= b[2])

\* list.sort(key=...) is stable: a row goes behind every row already placed
\* whose key is not greater
RECURSIVE InsertRow(_, _)
InsertRow(sorted, r) ==
    IF sorted = <<>> THEN <<r>>
    ELSE IF KeyLE(SortKey(sorted[Len(sorted)]), SortKey(r)) THEN Append(sorted, r)
    ELSE Append(InsertRow(SubSeq(sorted, 1, Len(sorted) - 1), r), sorted[Len(sorted)])

RECURSIVE SortRows(_)
SortRows(rows) ==
    IF rows = <<>> THEN <<>>
    ELSE InsertRow(SortRows(SubSeq(rows, 1, Len(rows) - 1)), rows[Len(rows)])

\* line 293: int(r.get("count_as_new_injury_registration", 0) or 0)
Normalise(r) ==
    [r EXCEPT !.count_as_new_injury_registration = IF TruthyInt(@) THEN @ ELSE 0]

IsInjuryRow(r) == r.is_injury_related = 1

\* line 291 asking for an event date as well
InjuryRows_DatedOnly(rows) ==
    LET sel == SelectSeq(rows, LAMBDA r : IsInjuryRow(r) /\ TruthyStr(r.event_date))
    IN  [i \in 1..Len(sel) |-> Normalise(sel[i])]

\* lines 291-293
InjuryRows(rows) ==
    LET sel == SelectSeq(rows, IsInjuryRow)
    IN  [i \in 1..Len(sel) |-> Normalise(sel[i])]

\* lines 292-293 seen from all_rows: the rows are shared with injury_rows
NormaliseShared(rows) ==
    [i \in 1..Len(rows) |-> IF IsInjuryRow(rows[i]) THEN Normalise(rows[i]) ELSE rows[i]]

RAW_COLUMNS ==
    { "transaction_id", "api_date", "effective_date", "resolution_date",
      "event_date", "year", "description", "is_injury_related",
      "injury_event_type", "is_il_placement", "is_il_activation",
      "is_il_transfer", "is_rehab_assignment", "is_covid_il", "il_days_bucket" }

INJURY_COLUMNS == RAW_COLUMNS \cup {"count_as_new_injury_registration"}

DAILY_COLUMNS ==
    { "date", "year", "injury_registrations", "injury_related_transactions",
      "il_activations", "il_transfers", "rehab_assignments" }

\* write_csv: the file holds, per row, the named columns
write_csv(rows, columns) ==
    [ written |-> TRUE,
      rows |-> [i \in 1..Len(rows) |-> [k \in columns |-> rows[i][k]]] ]

NotWritten == [written |-> FALSE, rows |-> <<>>]

Years == FirstYear..(FirstYear + NumYears - 1)

----------------------------------------------------------------------------
(* main *)

Init ==
    /\ ClassIdle /\ DailyIdle
    /\ pc = "start"
    /\ start_year \in Years /\ end_year \in Years
    /\ year = 0
    /\ all_rows = <<>> /\ injury_rows = <<>> /\ daily_rows = <<>>
    /\ files = [flat |-> NotWritten, injury |-> NotWritten, daily |-> NotWritten]
    /\ exit = Running
    /\ calls = <<>> /\ url = <<>> /\ attempt = 0 /\ last_error = NoException
    /\ retries = 0 /\ sleep_seconds = 0
    /\ sleeps = <<>> /\ failures = <<>> /\ payload = NoBody
    /\ fetched = <<>> /\ returned_txs = <<>>

\* lines 272-273 missing: an empty range of years goes on to the tables
CheckArgs_NoValidation ==
    /\ pc = "start"
    /\ pc' = IF start_year > end_year THEN "aggregate" ELSE "call"
    /\ year' = start_year
    /\ UNCHANGED <<start_year, end_year, all_rows, injury_rows, daily_rows,
                   files, exit, calls, url, attempt, last_error, sleeps,
                   failures, payload, histVars, fetchArgs, classVars, dailyVars>>

\* lines 272-276
CheckArgs ==
    /\ pc = "start"
    /\ IF start_year > end_year
       THEN /\ pc' = "done"
            /\ exit' = SystemExit
            /\ year' = year
       ELSE /\ pc' = "call"
            /\ year' = start_year
            /\ exit' = exit
    /\ UNCHANGED <<start_year, end_year, all_rows, injury_rows, daily_rows,
                   files, calls, url, attempt, last_error, sleeps, failures,
                   payload, histVars, fetchArgs, classVars, dailyVars>>

\* lines 277-281: fetch_json is called with its defaults
CallFetch ==
    /\ pc = "call"
    /\ url' = build_url(JanFirst(year), DecLast(year), SportId)
    /\ retries' = Retries
    /\ sleep_seconds' = SleepHalfSeconds
    /\ calls' = Append(calls, url')
    /\ pc' = "enter"
    /\ UNCHANGED <<start_year, end_year, year, all_rows, injury_rows,
                   daily_rows, files, exit, attempt, last_error, sleeps,
                   failures, payload, histVars, classVars, dailyVars>>

\* lines 98-99, and 108 when range(1, retries + 1) is empty
EnterFetch ==
    /\ pc = "enter"
    /\ last_error' = NoException
    /\ sleeps' = <<>>
    /\ failures' = <<>>
    /\ IF retries >= 1
       THEN attempt' = 1 /\ pc' = "attempt" /\ exit' = exit
       ELSE attempt' = attempt /\ pc' = "done" /\ exit' = RuntimeError(url, last_error')
    /\ UNCHANGED <<start_year, end_year, year, all_rows, injury_rows,
                   daily_rows, files, calls, url, payload, histVars, fetchArgs,
                   classVars, dailyVars>>

\* lines 105-108 skipping the year instead of raising when the retries
\* are used up
AttemptFails_SkipYear ==
    /\ pc = "attempt"
    /\ LET exc == Raised(attempt) IN
           /\ failures' = Append(failures, exc)
           /\ last_error' = RecordError(last_error, exc)
           /\ IF IsLastAttempt(attempt, retries)
              THEN /\ pc' = "pause"
                   /\ UNCHANGED <<attempt, sleeps, exit>>
              ELSE /\ sleeps' = Append(sleeps, Pause(sleep_seconds, attempt))
                   /\ attempt' = attempt + 1
                   /\ UNCHANGED <<exit, pc>>
    /\ UNCHANGED <<start_year, end_year, year, all_rows, injury_rows,
                   daily_rows, files, calls, url, payload, histVars, fetchArgs, classVars, dailyVars>>

\* lines 100-108: the attempt raises
AttemptFails ==
    /\ pc = "attempt"
    /\ LET exc == Raised(attempt) IN
           /\ failures' = Append(failures, exc)
           /\ last_error' = RecordError(last_error, exc)
           /\ IF IsLastAttempt(attempt, retries)
              THEN /\ exit' = RuntimeError(url, last_error')
                   /\ pc' = "done"
                   /\ UNCHANGED <<attempt, sleeps>>
              ELSE /\ sleeps' = Append(sleeps, Pause(sleep_seconds, attempt))
                   /\ attempt' = attempt + 1
                   /\ UNCHANGED <<exit, pc>>
    /\ UNCHANGED <<start_year, end_year, year, all_rows, injury_rows,
                   daily_rows, files, calls, url, payload, histVars, fetchArgs, classVars, dailyVars>>

\* lines 101-102: the attempt returns the parsed body
AttemptReturns ==
    /\ pc = "attempt"
    /\ \E has \in BOOLEAN, txs \in SeqsUpTo(TxPool, MaxTx - Len(all_rows)) :
           /\ has \/ txs = <<>>
           /\ payload' = Body(has, txs)
    /\ pc' = "returned"
    /\ UNCHANGED <<start_year, end_year, year, all_rows, injury_rows,
                   daily_rows, files, exit, calls, url, attempt, last_error,
                   sleeps, failures, histVars, fetchArgs, classVars, dailyVars>>

\* lines 281-285: main flattens and appends the transactions of the body
AppendRows ==
    /\ pc = "returned"
    /\ all_rows' = all_rows \o FlattenAll(Transactions(payload))
    /\ returned_txs' = returned_txs \o Transactions(payload)
    /\ fetched' = Append(fetched, year)
    /\ pc' = "pause"
    /\ UNCHANGED <<start_year, end_year, year, injury_rows, daily_rows, files,
                   exit, calls, url, attempt, last_error, sleeps, failures,
                   payload, fetchArgs, classVars, dailyVars>>

\* line 286 and the loop header of line 276; the locals of the finished
\* call of fetch_json are gone
YearPause ==
    /\ pc = "pause"
    /\ IF year = end_year
       THEN pc' = "aggregate" /\ year' = year
       ELSE pc' = "call" /\ year' = year + 1
    /\ url' = <<>> /\ attempt' = 0 /\ last_error' = NoException
    /\ retries' = 0 /\ sleep_seconds' = 0
    /\ sleeps' = <<>> /\ failures' = <<>> /\ payload' = NoBody
    /\ UNCHANGED <<start_year, end_year, all_rows, injury_rows, daily_rows,
                   files, exit, calls, histVars, classVars, dailyVars>>

\* lines 289-297
Aggregate ==
    /\ pc = "aggregate"
    /\ LET sorted == SortRows(all_rows)
           inj == InjuryRows(sorted)
           daily == build_daily_series(inj, date(start_year, 1, 1),
                                       date(end_year, 12, 31))
       IN  /\ all_rows' = NormaliseShared(sorted)
           /\ injury_rows' = inj
           /\ IF daily.returned
              THEN daily_rows' = daily.rows /\ pc' = "write_flat" /\ exit' = exit
              ELSE daily_rows' = <<>> /\ pc' = "done" /\ exit' = OverflowError
    /\ UNCHANGED <<start_year, end_year, year, files, calls, url, attempt,
                   last_error, sleeps, failures, payload, histVars, fetchArgs, classVars, dailyVars>>

\* line 303
WriteFlat ==
    /\ pc = "write_flat"
    /\ files' = [files EXCEPT !.flat = write_csv(all_rows, RAW_COLUMNS)]
    /\ pc' = "write_injury"
    /\ UNCHANGED <<start_year, end_year, year, all_rows, injury_rows,
                   daily_rows, exit, calls, url, attempt, last_error, sleeps,
                   failures, payload, histVars, fetchArgs, classVars, dailyVars>>

\* line 304
WriteInjury ==
    /\ pc = "write_injury"
    /\ files' = [files EXCEPT !.injury = write_csv(injury_rows, INJURY_COLUMNS)]
    /\ pc' = "write_daily"
    /\ UNCHANGED <<start_year, end_year, year, all_rows, injury_rows,
                   daily_rows, exit, calls, url, attempt, last_error, sleeps,
                   failures, payload, histVars, fetchArgs, classVars, dailyVars>>

\* lines 305-318: the last table is written and main returns 0; its row
\* lists are gone with it
WriteDaily ==
    /\ pc = "write_daily"
    /\ files' = [files EXCEPT !.daily = write_csv(daily_rows, DAILY_COLUMNS)]
    /\ pc' = "done"
    /\ exit' = Returned0
    /\ all_rows' = <<>> /\ injury_rows' = <<>> /\ daily_rows' = <<>>
    /\ UNCHANGED <<start_year, end_year, year, calls, url, attempt,
                   last_error, sleeps, failures, payload, histVars, fetchArgs,
                   classVars, dailyVars>>

Next ==
    \/ CheckArgs
    \/ CallFetch
    \/ EnterFetch
    \/ AttemptFails
    \/ AttemptReturns
    \/ AppendRows
    \/ YearPause
    \/ Aggregate
    \/ WriteFlat
    \/ WriteInjury
    \/ WriteDaily

Spec == Init /\ [][Next]_vars

----------------------------------------------------------------------------
(* fetch_json on its own, for any retries and sleep_seconds *)

\* sleep_seconds of 0.5 s and 1.5 s
SleepChoices == {1, SleepHalfSeconds}

InitFetch ==
    /\ ClassIdle /\ DailyIdle
    /\ pc = "enter"
    /\ url = build_url(JanFirst(FirstYear), DecLast(FirstYear), SportId)
    /\ retries \in 0..MaxRetries
    /\ sleep_seconds \in SleepChoices
    /\ start_year = 0 /\ end_year = 0 /\ year = 0
    /\ all_rows = <<>> /\ injury_rows = <<>> /\ daily_rows = <<>>
    /\ files = [flat |-> NotWritten, injury |-> NotWritten, daily |-> NotWritten]
    /\ exit = Running
    /\ calls = <<>> /\ attempt = 0 /\ last_error = NoException
    /\ sleeps = <<>> /\ failures = <<>> /\ payload = NoBody
    /\ fetched = <<>> /\ returned_txs = <<>>

NextFetch ==
    \/ EnterFetch
    \/ AttemptFails
    \/ AttemptReturns

SpecFetch == InitFetch /\ [][NextFetch]_vars

----------------------------------------------------------------------------
(* Properties *)

EVENT_TYPES ==
    { "il_transfer", "il_placement", "il_activation", "rehab_assignment",
      "injury_other", "non_injury" }

PRIORITY ==
    << "il_transfer", "il_placement", "il_activation", "rehab_assignment",
       "injury_other" >>

\* the detection results of a row, in priority order
Detections(r) ==
    << r.is_il_transfer, r.is_il_placement, r.is_il_activation,
       r.is_rehab_assignment, r.is_injury_related >>

\* C1: the row of every classified description carries exactly one
\* injury_event_type of the six, and it is the first category, in the order
\* transfer, placement, activation, rehab, generic keyword, whose detection
\* result is 1; non_injury when none is.
C1_EventTypeByPriority ==
    c_row /= NoRow =>
        LET det == Detections(c_row)
            hits == {i \in 1..5 : det[i] = 1}
        IN  /\ c_row.injury_event_type \in EVENT_TYPES
            /\ IF hits = {}
               THEN c_row.injury_event_type = "non_injury"
               ELSE \E i \in hits :
                       /\ \A j \in hits : i <= j
                       /\ c_row.injury_event_type = PRIORITY[i]

\* a description that is both a transfer and a placement was classified
C1_Witness ==
    /\ c_row /= NoRow
    /\ c_row.is_il_transfer = 1 /\ c_row.is_il_placement = 1
    /\ c_row.injury_event_type = "il_transfer"

RegistrationRule(r) ==
    /\ r.count_as_new_injury_registration \in {0, 1}
    /\ r.count_as_new_injury_registration = 1
           <=> (r.is_il_placement = 1 /\ r.is_il_transfer = 0)

\* C2: in every row main got from flatten_transaction, every row of
\* injury_rows and every row written to the injury table,
\* count_as_new_injury_registration is 1 exactly when is_il_placement = 1
\* and is_il_transfer = 0, and 0 otherwise.
C2_RegistrationIffPlacementNotTransfer ==
    /\ \A i \in 1..Len(all_rows) : RegistrationRule(all_rows[i])
    /\ \A i \in 1..Len(injury_rows) : RegistrationRule(injury_rows[i])
    /\ \A i \in 1..Len(files.injury.rows) : RegistrationRule(files.injury.rows[i])

\* the injury table holds a placement that counts and one that is also a
\* transfer and does not
C2_Witness ==
    /\ files.injury.written
    /\ \E i, j \in 1..Len(files.injury.rows) :
           /\ files.injury.rows[i].count_as_new_injury_registration = 1
           /\ files.injury.rows[j].is_il_placement = 1
           /\ files.injury.rows[j].is_il_transfer = 1
           /\ files.injury.rows[j].count_as_new_injury_registration = 0

RECURSIVE SumOver(_, _)
SumOver(f, S) ==
    IF S = {} THEN 0
    ELSE LET x == CHOOSE x \in S : TRUE IN f[x] + SumOver(f, S \ {x})

\* sum of injury_registrations over the rows of the daily table
DailyRegistrations ==
    LET rows == files.daily.rows
        regs == [i \in 1..Len(rows) |-> rows[i].injury_registrations]
    IN  SumOver(regs, {i \in 1..Len(rows) : regs[i] /= 0})

IsDigits(s) == \A i \in 1..Len(s) : s[i] \in 48..57

\* s is "YYYY-MM-DD" for a calendar day of the years lo..hi
IsDayKeyOfYears(s, lo, hi) ==
    /\ Len(s) = 10
    /\ s[5] = DASH /\ s[8] = DASH
    /\ IsDigits(SubSeq(s, 1, 4)) /\ IsDigits(SubSeq(s, 6, 7)) /\ IsDigits(SubSeq(s, 9, 10))
    /\ LET y == ParseInt(SubSeq(s, 1, 4))
           m == ParseInt(SubSeq(s, 6, 7))
           d == ParseInt(SubSeq(s, 9, 10))
       IN  /\ y \in lo..hi
           /\ m \in 1..12
           /\ d \in 1..DaysInMonth(y, m)

Registered == {i \in 1..Len(files.injury.rows) :
                  files.injury.rows[i].count_as_new_injury_registration = 1}

RegisteredOnDay ==
    {i \in Registered :
        IsDayKeyOfYears(files.injury.rows[i].event_date, start_year, end_year)}

\* C3 as stated: once the tables are written, the sum of injury_registrations
\* over the daily rows equals the number of injury-table rows with
\* count_as_new_injury_registration = 1, whatever their event_date.
C3_SumEqualsAllRegistrations ==
    files.daily.written => DailyRegistrations = Cardinality(Registered)

\* C3 amended: the sum equals the number of injury-table rows with
\* count_as_new_injury_registration = 1 whose event_date is present and is
\* the YYYY-MM-DD key of a day in [start-year-01-01, end-year-12-31].
C3_SumEqualsDatedRegistrations ==
    files.daily.written => DailyRegistrations = Cardinality(RegisteredOnDay)

\* tables written with one registration counted in the series and one that
\* has no day of the series
C3_Witness ==
    /\ files.daily.written
    /\ RegisteredOnDay /= {}
    /\ Registered \ RegisteredOnDay /= {}

ZeroCounters(r) ==
    /\ r.injury_registrations = 0 /\ r.injury_related_transactions = 0
    /\ r.il_activations = 0 /\ r.il_transfers = 0 /\ r.rehab_assignments = 0

\* C4: for start_date <= end_date build_daily_series returns exactly one row
\* per calendar day of [start_date, end_date], in ascending order without
\* gap or duplicate, with all five counters 0 on a day no injury row is
\* dated at; the number of rows depends on the range alone.
C4_OneRowPerDay ==
    (d_out.run /\ d_start <= d_end) =>
        /\ d_out.returned
        /\ Len(d_out.rows) = d_end - d_start + 1
        /\ \A i \in 1..Len(d_out.rows) :
               /\ d_out.rows[i].date = isoformat(d_start + i - 1)
               /\ (\A j \in 1..Len(d_in) : d_in[j].event_date /= d_out.rows[i].date)
                      => ZeroCounters(d_out.rows[i])

\* C4 apart from date.max: the same for every range that ends before it
C4_OneRowPerDayBeforeMax ==
    d_end /= DateMax => C4_OneRowPerDay

LinearPauses(n) == [k \in 1..n |-> sleep_seconds * k]

\* C5: fetch_json makes at most retries attempts; the attempt in progress or
\* returned from is preceded by failures only (it is the first to succeed),
\* with the pause sleep_seconds * k after failed attempt k; when it raises,
\* all retries attempts have failed, retries - 1 pauses were taken (none
\* after the last attempt), and the error carries the requested URL and the
\* failure of the last attempt as its cause.
C5_BoundedRetriesLinearPause ==
    /\ attempt <= retries
    /\ Len(failures) <= retries
    /\ pc \in {"attempt", "returned"} =>
           /\ Len(failures) = attempt - 1
           /\ sleeps = LinearPauses(attempt - 1)
    /\ exit.kind = "RuntimeError" =>
           /\ Len(failures) = retries
           /\ sleeps = LinearPauses(retries - 1)
           /\ exit.url = url
           /\ retries >= 1 => exit.cause = failures[retries]

\* three attempts have failed and the call has raised
C5_Witness ==
    /\ exit.kind = "RuntimeError"
    /\ retries = 3 /\ attempt = 3
    /\ Len(failures) = 3
    /\ failures[1] /= failures[3]
    /\ exit.cause = failures[3]
    /\ sleeps = <<sleep_seconds, 2 * sleep_seconds>>

AnyFileWritten ==
    files.flat.written \/ files.injury.written \/ files.daily.written

YearsOfRun == [i \in 1..(end_year - start_year + 1) |-> start_year + i - 1]

\* C6: a file is written only after the fetch of every year of
\* [start-year, end-year] has returned; once a fetch has failed for good no
\* file is written and no further fetch is made.
C6_NoOutputUnlessAllFetched ==
    /\ [](/\ AnyFileWritten => (fetched = YearsOfRun /\ exit.kind /= "RuntimeError")
          /\ exit.kind = "RuntimeError" => (~AnyFileWritten /\ Len(calls) = Len(fetched) + 1))
    /\ [][exit.kind = "RuntimeError" => (calls' = calls /\ files' = files)]_vars

\* the fetch of the second year failed for good after the first year had
\* returned rows
C6_Witness ==
    /\ exit.kind = "RuntimeError"
    /\ Len(fetched) = 1 /\ all_rows /= <<>>
    /\ ~AnyFileWritten

\* the key the flat table is ordered by: absent event_date as "", absent id as 0
FlatKey(r) ==
    << IF r.event_date = NoneStr THEN <<>> ELSE r.event_date,
       IF r.transaction_id = NoneInt THEN 0 ELSE r.transaction_id >>

FlatKeyLE(a, b) == StrLT(a[1], b[1]) \/ (a[1] = b[1] /\ a[2] <= b[2])

\* what identifies the transaction a row was made from
RawOfRow(r) ==
    <<r.transaction_id, r.api_date, r.effective_date, r.resolution_date, r.description>>

RawOfTx(tx) ==
    <<tx.id, tx.date, tx.effectiveDate, tx.resolutionDate,
      IF tx.description = NoneDesc THEN <<>> ELSE tx.description>>

MapSeq(f(_), seq) == [i \in 1..Len(seq) |-> f(seq[i])]

Permuted(seq, p) == [i \in 1..Len(seq) |-> seq[p[i]]]

\* C7: the rows written to the flat table ascend by (event_date,
\* transaction_id), an absent event_date counting as ""; rows with equal
\* keys keep the order they were fetched in; and the sequence of keys is the
\* same for every order in which the same transactions could have been
\* fetched and appended.
C7_FlatTableSorted ==
    files.flat.written =>
        LET rows == files.flat.rows
            fetchedRows == FlattenAll(returned_txs)
        IN  /\ \A i, j \in 1..Len(rows) :
                   i < j => FlatKeyLE(FlatKey(rows[i]), FlatKey(rows[j]))
            /\ \A i \in 1..Len(rows) :
                   LET SameKey(r) == FlatKey(r) = FlatKey(rows[i])
                   IN  MapSeq(RawOfRow, SelectSeq(rows, SameKey))
                         = MapSeq(RawOfRow, SelectSeq(fetchedRows, SameKey))
            /\ \A p \in Permutations(1..Len(fetchedRows)) :
                   MapSeq(FlatKey, SortRows(Permuted(fetchedRows, p)))
                     = MapSeq(FlatKey, rows)

\* the flat table was written in an order other than the fetch order
C7_Witness ==
    /\ files.flat.written
    /\ Len(files.flat.rows) >= 2
    /\ MapSeq(RawOfRow, files.flat.rows) /= MapSeq(RawOfTx, returned_txs)

Count(seq, x) == Cardinality({i \in 1..Len(seq) : seq[i] = x})

Restrict(r, cols) == [k \in cols |-> r[k]]

RestrictRaw(r) == Restrict(r, RAW_COLUMNS)

\* C8: when main returns, the flat table holds exactly the transactions the
\* API returned (each as often as it was returned), and the injury table
\* holds exactly the flat rows with is_injury_related = 1, in the same order.
C8_NoTransactionLost ==
    exit = Returned0 =>
        LET flat == MapSeq(RawOfRow, files.flat.rows)
            api == MapSeq(RawOfTx, returned_txs)
        IN  /\ Len(flat) = Len(api)
            /\ \A i \in 1..Len(api) : Count(flat, api[i]) = Count(api, api[i])
            /\ MapSeq(RestrictRaw, files.injury.rows)
                 = SelectSeq(files.flat.rows, IsInjuryRow)

\* a completed run whose flat table holds a non_injury row and a row without
\* event date, and whose injury table is shorter
C8_Witness ==
    /\ exit = Returned0
    /\ \E i, j \in 1..Len(files.flat.rows) :
           /\ files.flat.rows[i].injury_event_type = "non_injury"
           /\ files.flat.rows[j].event_date = NoneStr
    /\ Len(files.injury.rows) < Len(files.flat.rows)

ExpectedCalls(n) ==
    [i \in 1..n |-> [ startDate |-> IsoFormat(start_year + i - 1, 1, 1),
                      endDate |-> IsoFormat(start_year + i - 1, 12, 31),
                      sportId |-> 1 ]]

\* C9: with start-year > end-year main ends with the argument error without
\* any call of fetch_json and without any file; otherwise the calls made so
\* far are one per year, from start-year upwards, each for <year>-01-01 to
\* <year>-12-31, and a run that returns has made them for every year.
C9_ArgumentCheckAndYearlyFetch ==
    /\ start_year > end_year =>
           /\ calls = <<>> /\ attempt = 0 /\ ~AnyFileWritten
           /\ pc \in {"start", "done"}
           /\ pc = "done" => exit = SystemExit
    /\ start_year <= end_year =>
           /\ exit /= SystemExit
           /\ Len(calls) <= end_year - start_year + 1
           /\ calls = ExpectedCalls(Len(calls))
           /\ pc = "call" => Len(calls) = year - start_year
           /\ pc \in {"enter", "attempt", "returned", "pause"} =>
                  Len(calls) = year - start_year + 1
           /\ (AnyFileWritten \/ exit = Returned0) =>
                  Len(calls) = end_year - start_year + 1

\* main has ended on the argument error
C9_Witness ==
    /\ start_year > end_year
    /\ pc = "done" /\ exit = SystemExit

\* C10: in every row build_daily_series returns for rows of
\* flatten_transaction, injury_registrations + il_transfers, il_activations
\* and rehab_assignments are each at most injury_related_transactions.
C10_CountersWithinTotal ==
    d_out.returned =>
        \A i \in 1..Len(d_out.rows) :
            LET r == d_out.rows[i]
            IN  /\ r.injury_registrations + r.il_transfers <= r.injury_related_transactions
                /\ r.il_activations <= r.injury_related_transactions
                /\ r.rehab_assignments <= r.injury_related_transactions

\* a day with a registration and a transfer, which are two transactions
C10_Witness ==
    /\ d_out.returned
    /\ \E i \in 1..Len(d_out.rows) :
           /\ d_out.rows[i].injury_registrations = 1
           /\ d_out.rows[i].il_transfers = 1
           /\ d_out.rows[i].injury_related_transactions = 2

====
